---- MODULE Spec2Model ----
(***************************************************************************)
(* Model of the person guide gRPC server (server/server.go).               *)
(*                                                                         *)
(* The server keeps two collections: savedPersons, which GetPhone and      *)
(* ListPersons read, and addressbook["book"][0].People, which              *)
(* RecordPersons extends and returns.  Every RPC runs in its own goroutine *)
(* (one session per call); a session is a slot of Sessions.                *)
(***************************************************************************)
EXTENDS Integers, Sequences, FiniteSets, TLC

-----------------------------------------------------------------------------
(* Bounds of the model. *)

\* number of RPC sessions the server handles in one behaviour
MaxSessions == 2
\* number of messages a client streams in one session
MaxRecv == 2
\* largest value of the server clock
MaxClock == 1
\* longest registry of the lookup specification
MaxRegistry == 2
\* largest number of messages a stream buffers in one direction
MaxBuffer == 2

Sessions == 1..MaxSessions

-----------------------------------------------------------------------------
(* Messages of personguide/person_guide.proto. *)

PhoneNumber(number, type) == [number |-> number, type |-> type]

\* &pb.PhoneNumber{}: the zero value of the message (MOBILE = 0)
EmptyPhoneNumber == PhoneNumber("", "MOBILE")

\* LastUpdated is a pointer: <<>> is nil, <<t>> a timestamp t
Person(name, id, email, phs, lastUpdated) ==
    [name |-> name, id |-> id, email |-> email, phones |-> phs,
     lastUpdated |-> lastUpdated]

-----------------------------------------------------------------------------
(* Example data of the server. *)

phones ==
    << PhoneNumber("1234", "HOME"),
       PhoneNumber("4321", "WORK"),
       PhoneNumber("4312", "MOBILE") >>

exampleData ==
    << Person("Juan", 1, "juan@gmail.com", phones, <<>>),
       Person("Gabriel", 2, "gabriel@gmail.com", phones, <<>>),
       Person("Albert", 3, "albert@gmail.com", phones, <<>>),
       Person("Mark", 4, "mark@gmail.com", phones, <<>>),
       Person("Brian", 5, "brian@gmail.com", phones, <<>>),
       Person("Kevin", 6, "kevin@gmail.com", phones, <<>>),
       Person("Ryan", 7, "ryan@gmail.com", phones, <<>>),
       Person("May", 8, "may@gmail.com", phones, <<>>),
       Person("Rosario", 9, "rosario@gmail.com", phones, <<>>),
       Person("Argentina", 10, "argentina@gmail.com", phones, <<>>) >>

\* exampleAdressBook[0].People
exampleAdressBook == exampleData

\* the record RecordPersons builds on end-of-input
syntheticPerson ==
    Person("Another part in the world", 11,
           "anotherpartintheworld@gmail.com", phones, <<>>)

-----------------------------------------------------------------------------
(* Inputs of the clients. *)

\* persons a client streams to RecordPersons and RoutePhones; the client
\* sets a timestamp of its own
ClientPersons ==
    { Person("Ann", 12, "ann@example.com",
             << PhoneNumber("555", "WORK"), PhoneNumber("556", "HOME") >>,
             << 0 >>),
      Person("Juan", 1, "juan@example.com",
             << PhoneNumber("777", "MOBILE") >>, << 0 >>),
      Person("Zed", 13, "zed@example.com", <<>>, << 0 >>) }

\* the persons the client driver sends (client/client.go)
persons ==
    << Person("Juan", 1, "juan@gmail.com", phones, <<>>),
       Person("Gabriel", 2, "gabriel@gmail.com", phones, <<>>),
       Person("Albert", 3, "albert@gmail.com", phones, <<>>),
       Person("Mark", 4, "mark@gmail.com", phones, <<>>),
       Person("Brian", 5, "brian@gmail.com", phones, <<>>),
       Person("Kevin", 6, "kevin@gmail.com", phones, <<>>) >>

\* ids a client asks GetPhone for: seed ids, the synthetic id, absent ids
QueryIds == {1, 10, 11, 12}

\* names a client puts in the Adress of ListPersons
QueryAdresses == {"", "Juan"}

\* registries of the lookup specification: records that share ids, with no
\* phone, with a zero-valued phone and with several phones
LookupPersons ==
    { Person("P", i, "p@example.com", ph, <<>>) :
        i \in {1, 2},
        ph \in { <<>>,
                 << EmptyPhoneNumber >>,
                 << PhoneNumber("555", "WORK"), PhoneNumber("556", "HOME") >> } }

Registries == UNION { [1..n -> LookupPersons] : n \in 0..MaxRegistry }

LookupIds == {1, 2, 3}

\* errors
NoError == "nil"
EOF == "EOF"
TransportError == "transport error"
NotFoundError == "Not found person"

-----------------------------------------------------------------------------
VARIABLES
    savedPersons,   \* s.savedPersons
    addressbook,    \* s.addressbook["book"][0].People
    mu,             \* s.mu: 0 when unlocked, else the session holding it
    now,            \* the server clock read by time.Now()
    kind,           \* kind[s]: the RPC session s runs, "idle" before it starts
    pc,             \* pc[s]: position of the handler of session s
    reqId,          \* GetPhone: person.Id of the request
    adress,         \* ListPersons: adress.Name of the request
    ranged,         \* ListPersons: the slice the range statement iterates
    idx,            \* ListPersons, RoutePhones: index of the running loop
    person,         \* RoutePhones: the person just received, <<>> if none
    rn,             \* RoutePhones: the copy of person.Phones
    old,            \* RecordPersons: the People slice read by append
    recvd,          \* persons the session received, in arrival order
    sent,           \* messages the session sent to its client, in order
    err,            \* the error the handler returned
    recvErr,        \* the error of the last stream.Recv() of the session
    sendErr,        \* the error of the last send on the stream of the session
    startPersons,   \* savedPersons when the session started
    startBook,      \* addressbook when the session started
    eofOrder,       \* RecordPersons sessions in the order they got io.EOF
    cpc,            \* runRoutePhones: position of the calling goroutine
    psent,          \* runRoutePhones: persons sent by the loop over persons
    gpc,            \* runRoutePhones: position of the receiving goroutine
    waitc,          \* runRoutePhones: number of close(waitc) executed
    got,            \* runRoutePhones: phones the receiving goroutine got
    up,             \* persons sent by the client, not yet received
    upClosed,       \* the client called CloseSend
    down,           \* phones sent by the handler, not yet received
    upCap,          \* messages the stream buffers towards the server
    downCap         \* messages the stream buffers towards the client

vars == << savedPersons, addressbook, mu, now, kind, pc, reqId, adress,
           ranged, idx, person, rn, old, recvd, sent, err, recvErr, sendErr,
           startPersons, startBook, eofOrder,
           cpc, psent, gpc, waitc, got, up, upClosed, down, upCap, downCap >>

shared == << savedPersons, addressbook, mu, now >>
locals == << reqId, adress, ranged, idx, person, rn, old >>
history ==
    << recvd, sent, startPersons, startBook, eofOrder >>
ioErrs == << recvErr, sendErr >>

\* the state of the server and of its sessions
server == << shared, kind, pc, locals, history, err, ioErrs >>
\* the state of the client driver runRoutePhones and of its stream
exchange ==
    << cpc, psent, gpc, waitc, got, up, upClosed, down, upCap, downCap >>

-----------------------------------------------------------------------------
(* newServer / loadFeatures *)

loadFeatures ==
    /\ savedPersons = exampleData
    /\ addressbook = exampleAdressBook

newServer ==
    /\ loadFeatures
    /\ mu = 0

NoSession ==
    /\ kind = [s \in Sessions |-> "idle"]
    /\ pc = [s \in Sessions |-> "idle"]
    /\ reqId = [s \in Sessions |-> 0]
    /\ adress = [s \in Sessions |-> ""]
    /\ ranged = [s \in Sessions |-> <<>>]
    /\ idx = [s \in Sessions |-> 0]
    /\ person = [s \in Sessions |-> <<>>]
    /\ rn = [s \in Sessions |-> <<>>]
    /\ old = [s \in Sessions |-> <<>>]
    /\ recvd = [s \in Sessions |-> <<>>]
    /\ sent = [s \in Sessions |-> <<>>]
    /\ err = [s \in Sessions |-> NoError]
    /\ recvErr = [s \in Sessions |-> NoError]
    /\ sendErr = [s \in Sessions |-> NoError]
    /\ startPersons = [s \in Sessions |-> <<>>]
    /\ startBook = [s \in Sessions |-> <<>>]
    /\ eofOrder = <<>>

\* no client driver runs: the clients are the inputs of the actions
NoExchange ==
    /\ cpc = "idle" /\ gpc = "idle"
    /\ psent = 0 /\ waitc = 0 /\ got = <<>>
    /\ up = <<>> /\ upClosed = FALSE /\ down = <<>>
    /\ upCap = 0 /\ downCap = 0

Init ==
    /\ newServer
    /\ now = 0
    /\ NoSession
    /\ NoExchange

\* a panic in a handler ends the server process: nothing runs after it
Running == \A s \in Sessions : pc[s] # "panic"

\* sessions are numbered in the order in which they start
CanStart(s) ==
    /\ Running
    /\ kind[s] = "idle"
    /\ \A t \in Sessions : t < s => kind[t] # "idle"

Start(s, k, p) ==
    /\ CanStart(s)
    /\ kind' = [kind EXCEPT ![s] = k]
    /\ pc' = [pc EXCEPT ![s] = p]
    /\ startPersons' = [startPersons EXCEPT ![s] = savedPersons]
    /\ startBook' = [startBook EXCEPT ![s] = addressbook]

\* the handler returns e
Return(s, e) ==
    /\ pc' = [pc EXCEPT ![s] = IF e = NoError THEN "done" ELSE "failed"]
    /\ err' = [err EXCEPT ![s] = e]

-----------------------------------------------------------------------------
(* time.Now(): the clock never goes back *)

Tick ==
    /\ Running
    /\ now < MaxClock
    /\ now' = now + 1
    /\ UNCHANGED << savedPersons, addressbook, mu, kind, pc, locals,
                    history, err >>
    /\ UNCHANGED ioErrs

-----------------------------------------------------------------------------
(* GetPhone *)

\* indexes of the records of saved whose id is id
Matches(saved, id) == { i \in 1..Len(saved) : saved[i].id = id }

Min(S) == CHOOSE i \in S : \A j \in S : i <= j

Max(S) == CHOOSE i \in S : \A j \in S : j <= i

\* GetPhone with a loop that keeps the last match instead of returning at the
\* first one
GetPhoneLastMatch(saved, id) ==
    IF Matches(saved, id) = {}
    THEN [outcome |-> "return", phone |-> EmptyPhoneNumber,
          err |-> NotFoundError]
    ELSE LET p == saved[Max(Matches(saved, id))]
         IN  IF Len(p.phones) = 0
             THEN [outcome |-> "panic", phone |-> EmptyPhoneNumber,
                   err |-> NoError]
             ELSE [outcome |-> "return", phone |-> p.phones[1],
                   err |-> NoError]

\* GetPhone that returns the unnamed phone without an error when no record
\* matches
GetPhoneNoError(saved, id) ==
    IF Matches(saved, id) = {}
    THEN [outcome |-> "return", phone |-> EmptyPhoneNumber, err |-> NoError]
    ELSE LET p == saved[Min(Matches(saved, id))]
         IN  IF Len(p.phones) = 0
             THEN [outcome |-> "panic", phone |-> EmptyPhoneNumber,
                   err |-> NoError]
             ELSE [outcome |-> "return", phone |-> p.phones[1],
                   err |-> NoError]

\* what GetPhone does on the registry saved for the id id: the loop returns
\* at the first match; indexing the empty phone list of that match panics
GetPhoneResult(saved, id) ==
    IF Matches(saved, id) = {}
    THEN [outcome |-> "return", phone |-> EmptyPhoneNumber,
          err |-> NotFoundError]
    ELSE LET p == saved[Min(Matches(saved, id))]
         IN  IF Len(p.phones) = 0
             THEN [outcome |-> "panic", phone |-> EmptyPhoneNumber,
                   err |-> NoError]
             ELSE [outcome |-> "return", phone |-> p.phones[1],
                   err |-> NoError]

GetPhone(s, id) ==
    LET r == GetPhoneResult(savedPersons, id)
    IN  /\ CanStart(s)
        /\ kind' = [kind EXCEPT ![s] = "GetPhone"]
        /\ startPersons' = [startPersons EXCEPT ![s] = savedPersons]
        /\ startBook' = [startBook EXCEPT ![s] = addressbook]
        /\ reqId' = [reqId EXCEPT ![s] = id]
        /\ IF r.outcome = "panic"
           THEN /\ pc' = [pc EXCEPT ![s] = "panic"]
                /\ UNCHANGED << sent, err >>
           ELSE /\ Return(s, r.err)
                /\ sent' = [sent EXCEPT ![s] = << r.phone >>]
        /\ UNCHANGED << shared, adress, ranged, idx, person, rn, old, recvd,
                        eofOrder >>
        /\ UNCHANGED ioErrs

-----------------------------------------------------------------------------
(* the streams: what stream.Recv() hands to a handler *)

\* the generated Recv returns (message, nil), (nil, io.EOF) or (nil, error);
\* an option is <<>> for nil and <<m>> for a message m
RecvOutcomes ==
    { [person |-> << p >>, err |-> NoError] : p \in ClientPersons }
        \cup { [person |-> <<>>, err |-> EOF],
               [person |-> <<>>, err |-> TransportError] }

\* a client streams at most MaxRecv messages in a session
CanRecv(s, out) == out.person # <<>> => Len(recvd[s]) < MaxRecv

Received(s, out) == recvd[s] \o out.person

-----------------------------------------------------------------------------
(* ListPersons *)

\* ListPersons that keeps the persons whose name is the adress
ListedPersonsByName(saved, a) ==
    IF a = "" THEN saved ELSE SelectSeq(saved, LAMBDA p : p.name = a)

\* the persons the loop of ListPersons ranges over: the adress is printed
\* and not used
ListedPersons(saved, a) == saved

ListPersonsStart(s, a) ==
    /\ Start(s, "ListPersons", "send")
    /\ adress' = [adress EXCEPT ![s] = a]
    /\ ranged' = [ranged EXCEPT ![s] = ListedPersons(savedPersons, a)]
    /\ UNCHANGED << shared, reqId, idx, person, rn, old, recvd, sent, err,
                    eofOrder >>
    /\ UNCHANGED ioErrs

ListPersonsSend(s) ==
    /\ Running
    /\ kind[s] = "ListPersons" /\ pc[s] = "send"
    /\ idx[s] < Len(ranged[s])
    /\ sent' = [sent EXCEPT ![s] = Append(@, ranged[s][idx[s] + 1])]
    /\ idx' = [idx EXCEPT ![s] = @ + 1]
    /\ UNCHANGED << shared, kind, pc, reqId, adress, ranged, person, rn, old,
                    recvd, err, startPersons, startBook,
                    eofOrder >>
    /\ sendErr' = [sendErr EXCEPT ![s] = NoError]
    /\ UNCHANGED recvErr

\* a loop that goes on with the next person after a failed send
ListPersonsSendSkip(s) ==
    /\ Running
    /\ kind[s] = "ListPersons" /\ pc[s] = "send"
    /\ idx[s] < Len(ranged[s])
    /\ idx' = [idx EXCEPT ![s] = @ + 1]
    /\ sendErr' = [sendErr EXCEPT ![s] = TransportError]
    /\ UNCHANGED << shared, kind, pc, reqId, adress, ranged, person, rn, old,
                    history, err, recvErr >>

ListPersonsSendFail(s) ==
    /\ Running
    /\ kind[s] = "ListPersons" /\ pc[s] = "send"
    /\ idx[s] < Len(ranged[s])
    /\ Return(s, TransportError)
    /\ UNCHANGED << shared, kind, locals, history >>
    /\ sendErr' = [sendErr EXCEPT ![s] = TransportError]
    /\ UNCHANGED recvErr

ListPersonsReturn(s) ==
    /\ Running
    /\ kind[s] = "ListPersons" /\ pc[s] = "send"
    /\ idx[s] = Len(ranged[s])
    /\ Return(s, NoError)
    /\ UNCHANGED << shared, kind, locals, history >>
    /\ UNCHANGED ioErrs

-----------------------------------------------------------------------------
(* RecordPersons *)

\* the loop saving every person received without an error
ShouldSaveOnSuccess(out) == out.err = NoError /\ out.person # <<>>

\* the condition under which the loop stamps and saves the received person
ShouldSave(out) == out.err # NoError /\ out.person # <<>>

\* lastPerson.LastUpdated = ts
Stamp(p, ts) == [p EXCEPT !.lastUpdated = << ts >>]

RecordPersonsStart(s) ==
    /\ Start(s, "RecordPersons", "recv")
    /\ UNCHANGED << shared, locals, recvd, sent, err, eofOrder >>
    /\ UNCHANGED ioErrs

\* the loop injecting and answering on any error of Recv
AnyError(out) == out.err # NoError

\* the loop injecting and answering when Recv returns a message
NoRecvError(out) == out.err = NoError

\* the test for end-of-input: err == io.EOF
EndOfInput(out) == out.err = EOF

\* one iteration of the loop up to the end-of-input test
RecordPersonsRecv(s, out) ==
    /\ Running
    /\ kind[s] = "RecordPersons" /\ pc[s] = "recv"
    /\ CanRecv(s, out)
    /\ recvd' = [recvd EXCEPT ![s] = Received(s, out)]
    /\ savedPersons' =
         IF ShouldSave(out)
         THEN Append(savedPersons, Stamp(out.person[1], now))
         ELSE savedPersons
    /\ IF EndOfInput(out)
       THEN pc' = [pc EXCEPT ![s] = "load"] /\ UNCHANGED err
       ELSE IF out.err # NoError
            THEN Return(s, out.err)
            ELSE UNCHANGED << pc, err >>
    /\ eofOrder' = IF out.err = EOF THEN Append(eofOrder, s) ELSE eofOrder
    /\ UNCHANGED << addressbook, mu, now, kind, locals, sent,
                    startPersons, startBook >>
    /\ recvErr' = [recvErr EXCEPT ![s] = out.err]
    /\ UNCHANGED sendErr

\* append(s.addressbook["book"][0].People, &p) reads the slice ...
RecordPersonsLoad(s) ==
    /\ Running
    /\ kind[s] = "RecordPersons" /\ pc[s] = "load"
    /\ old' = [old EXCEPT ![s] = addressbook]
    /\ pc' = [pc EXCEPT ![s] = "store"]
    /\ UNCHANGED << shared, kind, reqId, adress, ranged, idx, person, rn,
                    history, err >>
    /\ UNCHANGED ioErrs

\* an injection that lands in the registry too, as if savedPersons and the
\* address book were one slice
RecordPersonsStoreShared(s) ==
    /\ Running
    /\ kind[s] = "RecordPersons" /\ pc[s] = "store"
    /\ addressbook' = Append(old[s], syntheticPerson)
    /\ savedPersons' = Append(savedPersons, syntheticPerson)
    /\ old' = [old EXCEPT ![s] = <<>>]
    /\ pc' = [pc EXCEPT ![s] = "send"]
    /\ UNCHANGED << mu, now, kind, reqId, adress, ranged, idx,
                    person, rn, history, err >>
    /\ UNCHANGED ioErrs

\* ... and the assignment stores the extended slice; s.mu is not taken
RecordPersonsStore(s) ==
    /\ Running
    /\ kind[s] = "RecordPersons" /\ pc[s] = "store"
    /\ addressbook' = Append(old[s], syntheticPerson)
    /\ old' = [old EXCEPT ![s] = <<>>]
    /\ pc' = [pc EXCEPT ![s] = "send"]
    /\ UNCHANGED << savedPersons, mu, now, kind, reqId, adress, ranged, idx,
                    person, rn, history, err >>
    /\ UNCHANGED ioErrs

\* the message SendAndClose marshals: the address book as it is then
Snapshot == [people |-> addressbook]

RecordPersonsSendAndClose(s) ==
    /\ Running
    /\ kind[s] = "RecordPersons" /\ pc[s] = "send"
    /\ sent' = [sent EXCEPT ![s] = << Snapshot >>]
    /\ Return(s, NoError)
    /\ UNCHANGED << shared, kind, locals, recvd, startPersons, startBook,
                    eofOrder >>
    /\ sendErr' = [sendErr EXCEPT ![s] = NoError]
    /\ UNCHANGED recvErr

RecordPersonsSendFail(s) ==
    /\ Running
    /\ kind[s] = "RecordPersons" /\ pc[s] = "send"
    /\ Return(s, TransportError)
    /\ UNCHANGED << shared, kind, locals, history >>
    /\ sendErr' = [sendErr EXCEPT ![s] = TransportError]
    /\ UNCHANGED recvErr

-----------------------------------------------------------------------------
(* RoutePhones *)

RoutePhonesStart(s) ==
    /\ Start(s, "RoutePhones", "recv")
    /\ UNCHANGED << shared, locals, recvd, sent, err,
                    eofOrder >>
    /\ UNCHANGED ioErrs

\* a RoutePhones that also saves the person it receives in the registry
RoutePhonesRecvSaving(s, out) ==
    /\ Running
    /\ kind[s] = "RoutePhones" /\ pc[s] = "recv"
    /\ CanRecv(s, out)
    /\ recvd' = [recvd EXCEPT ![s] = Received(s, out)]
    /\ person' = [person EXCEPT ![s] = out.person]
    /\ savedPersons' = savedPersons \o out.person
    /\ IF out.err = EOF
       THEN Return(s, NoError)
       ELSE IF out.err # NoError
            THEN Return(s, out.err)
            ELSE pc' = [pc EXCEPT ![s] = "lock"] /\ UNCHANGED err
    /\ UNCHANGED << addressbook, mu, now, kind, reqId, adress, ranged, idx,
                    rn, old, sent, startPersons, startBook,
                    eofOrder >>
    /\ recvErr' = [recvErr EXCEPT ![s] = out.err]
    /\ UNCHANGED sendErr

\* a RoutePhones that answers end-of-input with a final, empty message
RoutePhonesRecvFinal(s, out) ==
    /\ Running
    /\ kind[s] = "RoutePhones" /\ pc[s] = "recv"
    /\ CanRecv(s, out)
    /\ recvd' = [recvd EXCEPT ![s] = Received(s, out)]
    /\ person' = [person EXCEPT ![s] = out.person]
    /\ sent' = [sent EXCEPT ![s] =
                  IF out.err = EOF THEN Append(@, EmptyPhoneNumber) ELSE @]
    /\ IF out.err = EOF
       THEN Return(s, NoError)
       ELSE IF out.err # NoError
            THEN Return(s, out.err)
            ELSE pc' = [pc EXCEPT ![s] = "lock"] /\ UNCHANGED err
    /\ UNCHANGED << shared, kind, reqId, adress, ranged, idx, rn, old,
                    startPersons, startBook, eofOrder >>
    /\ recvErr' = [recvErr EXCEPT ![s] = out.err]
    /\ UNCHANGED sendErr

RoutePhonesRecv(s, out) ==
    /\ Running
    /\ kind[s] = "RoutePhones" /\ pc[s] = "recv"
    /\ CanRecv(s, out)
    /\ recvd' = [recvd EXCEPT ![s] = Received(s, out)]
    /\ person' = [person EXCEPT ![s] = out.person]
    /\ IF out.err = EOF
       THEN Return(s, NoError)
       ELSE IF out.err # NoError
            THEN Return(s, out.err)
            ELSE pc' = [pc EXCEPT ![s] = "lock"] /\ UNCHANGED err
    /\ UNCHANGED << shared, kind, reqId, adress, ranged, idx, rn, old, sent,
                    startPersons, startBook,
                    eofOrder >>
    /\ recvErr' = [recvErr EXCEPT ![s] = out.err]
    /\ UNCHANGED sendErr

\* s.mu.Lock()
RoutePhonesLock(s) ==
    /\ Running
    /\ kind[s] = "RoutePhones" /\ pc[s] = "lock"
    /\ mu = 0
    /\ mu' = s
    /\ pc' = [pc EXCEPT ![s] = "copy"]
    /\ UNCHANGED << savedPersons, addressbook, now, kind, locals, history,
                    err >>
    /\ UNCHANGED ioErrs

\* a copy that is one element short
CopyAllButLast(p) ==
    IF Len(p.phones) = 0 THEN <<>> ELSE SubSeq(p.phones, 1, Len(p.phones) - 1)

\* a copy that reads the person from a place the sessions share: the person
\* of the latest session that holds one
CopyFromShared(p) ==
    person[Max({ t \in Sessions : person[t] # <<>> })][1].phones

\* rn := make(...); copy(rn, person.Phones)
CopyPhones(p) == p.phones

\* the position after i of the n copied phones are sent: the inner loop
\* ends and the outer loop receives again
AfterSend(i, n) == IF i < n THEN "send" ELSE "recv"

\* a handler that goes on without s.mu.Unlock()
KeepLocked(s) == s

\* s.mu.Unlock(): the value of mu after session s released it
AfterUnlock(s) == 0

\* the copy and s.mu.Unlock()
RoutePhonesCopy(s) ==
    /\ Running
    /\ kind[s] = "RoutePhones" /\ pc[s] = "copy"
    /\ mu' = AfterUnlock(s)
    /\ LET c == CopyPhones(person[s][1])
       IN  /\ pc' = [pc EXCEPT ![s] = AfterSend(0, Len(c))]
           /\ rn' = [rn EXCEPT ![s] = IF Len(c) = 0 THEN <<>> ELSE c]
           /\ person' = [person EXCEPT ![s] = IF Len(c) = 0 THEN <<>> ELSE @]
    /\ UNCHANGED << savedPersons, addressbook, now, kind, reqId, adress,
                    ranged, idx, old, history, err >>
    /\ UNCHANGED ioErrs

\* stream.Send(phone) of the inner loop; person, rn and the loop index are
\* variables of one iteration of the outer loop
RoutePhonesSend(s) ==
    /\ Running
    /\ kind[s] = "RoutePhones" /\ pc[s] = "send"
    /\ sent' = [sent EXCEPT ![s] = Append(@, rn[s][idx[s] + 1])]
    /\ LET last == idx[s] + 1 = Len(rn[s])
       IN  /\ pc' = [pc EXCEPT ![s] = AfterSend(idx[s] + 1, Len(rn[s]))]
           /\ idx' = [idx EXCEPT ![s] = IF last THEN 0 ELSE @ + 1]
           /\ rn' = [rn EXCEPT ![s] = IF last THEN <<>> ELSE @]
           /\ person' = [person EXCEPT ![s] = IF last THEN <<>> ELSE @]
    /\ UNCHANGED << shared, kind, reqId, adress, ranged, old, recvd, err,
                    startPersons, startBook,
                    eofOrder >>
    /\ sendErr' = [sendErr EXCEPT ![s] = NoError]
    /\ UNCHANGED recvErr

RoutePhonesSendFail(s) ==
    /\ Running
    /\ kind[s] = "RoutePhones" /\ pc[s] = "send"
    /\ Return(s, TransportError)
    /\ UNCHANGED << shared, kind, locals, history >>
    /\ sendErr' = [sendErr EXCEPT ![s] = TransportError]
    /\ UNCHANGED recvErr

-----------------------------------------------------------------------------
Next ==
    \/ Tick
          /\ UNCHANGED exchange
    \/ \E s \in Sessions, id \in QueryIds : GetPhone(s, id)
          /\ UNCHANGED exchange
    \/ \E s \in Sessions, a \in QueryAdresses : ListPersonsStart(s, a)
          /\ UNCHANGED exchange
    \/ \E s \in Sessions : ListPersonsSend(s)
          /\ UNCHANGED exchange
    \/ \E s \in Sessions : ListPersonsSendFail(s)
          /\ UNCHANGED exchange
    \/ \E s \in Sessions : ListPersonsReturn(s)
          /\ UNCHANGED exchange
    \/ \E s \in Sessions : RecordPersonsStart(s)
          /\ UNCHANGED exchange
    \/ \E s \in Sessions, out \in RecvOutcomes : RecordPersonsRecv(s, out)
          /\ UNCHANGED exchange
    \/ \E s \in Sessions : RecordPersonsLoad(s)
          /\ UNCHANGED exchange
    \/ \E s \in Sessions : RecordPersonsStore(s)
          /\ UNCHANGED exchange
    \/ \E s \in Sessions : RecordPersonsSendAndClose(s)
          /\ UNCHANGED exchange
    \/ \E s \in Sessions : RecordPersonsSendFail(s)
          /\ UNCHANGED exchange
    \/ \E s \in Sessions : RoutePhonesStart(s)
          /\ UNCHANGED exchange
    \/ \E s \in Sessions, out \in RecvOutcomes : RoutePhonesRecv(s, out)
          /\ UNCHANGED exchange
    \/ \E s \in Sessions : RoutePhonesLock(s)
          /\ UNCHANGED exchange
    \/ \E s \in Sessions : RoutePhonesCopy(s)
          /\ UNCHANGED exchange
    \/ \E s \in Sessions : RoutePhonesSend(s)
          /\ UNCHANGED exchange
    \/ \E s \in Sessions : RoutePhonesSendFail(s)
          /\ UNCHANGED exchange

Spec == Init /\ [][Next]_vars

-----------------------------------------------------------------------------
(* RecordPersons alone: one more client than Sessions, all of them calling *)
(* RecordPersons, so that two sessions can update the address book while a *)
(* third one is in the middle of its own update.                           *)

Recorders == 1..(MaxSessions + 1)

InitRecord ==
    /\ newServer
    /\ now = 0
    /\ kind = [s \in Recorders |-> "idle"]
    /\ pc = [s \in Recorders |-> "idle"]
    /\ reqId = [s \in Recorders |-> 0]
    /\ adress = [s \in Recorders |-> ""]
    /\ ranged = [s \in Recorders |-> <<>>]
    /\ idx = [s \in Recorders |-> 0]
    /\ person = [s \in Recorders |-> <<>>]
    /\ rn = [s \in Recorders |-> <<>>]
    /\ old = [s \in Recorders |-> <<>>]
    /\ recvd = [s \in Recorders |-> <<>>]
    /\ sent = [s \in Recorders |-> <<>>]
    /\ err = [s \in Recorders |-> NoError]
    /\ recvErr = [s \in Recorders |-> NoError]
    /\ sendErr = [s \in Recorders |-> NoError]
    /\ startPersons = [s \in Recorders |-> <<>>]
    /\ startBook = [s \in Recorders |-> <<>>]
    /\ eofOrder = <<>>
    /\ NoExchange

\* the clients of this specification all stream the same person: what is
\* received has no effect on the address book
RecorderOutcomes ==
    { out \in RecvOutcomes :
        out.person = <<>> \/ out.person[1].name = "Ann" }

NextRecord ==
    \/ \E s \in Recorders : RecordPersonsStart(s)
          /\ UNCHANGED exchange
    \/ \E s \in Recorders, out \in RecorderOutcomes :
          RecordPersonsRecv(s, out)
          /\ UNCHANGED exchange
    \/ \E s \in Recorders : RecordPersonsLoad(s)
          /\ UNCHANGED exchange
    \/ \E s \in Recorders : RecordPersonsStore(s)
          /\ UNCHANGED exchange
    \/ \E s \in Recorders : RecordPersonsSendAndClose(s)
          /\ UNCHANGED exchange
    \/ \E s \in Recorders : RecordPersonsSendFail(s)
          /\ UNCHANGED exchange

SpecRecord == InitRecord /\ [][NextRecord]_vars

\* a receive of session s: the peer sends, ends its input or the stream fails
RecvStep(s) ==
    /\ \E out \in RecvOutcomes :
          RecordPersonsRecv(s, out) \/ RoutePhonesRecv(s, out)
    /\ UNCHANGED exchange

\* a step of the goroutine of session s that waits for no message of the
\* peer: a send (which succeeds or fails), the update of the address book,
\* the lock, the copy and the unlock
ServerStep(s) ==
    /\ \/ ListPersonsSend(s) \/ ListPersonsSendFail(s)
       \/ ListPersonsReturn(s)
       \/ RecordPersonsLoad(s) \/ RecordPersonsStore(s)
       \/ RecordPersonsSendAndClose(s) \/ RecordPersonsSendFail(s)
       \/ RoutePhonesLock(s) \/ RoutePhonesCopy(s)
       \/ RoutePhonesSend(s) \/ RoutePhonesSendFail(s)
    /\ UNCHANGED exchange

\* the Go scheduler runs every runnable goroutine: a handler that can take
\* a step on its own takes it
LiveSpec == Spec /\ \A s \in Sessions : WF_vars(ServerStep(s))

-----------------------------------------------------------------------------
(* A RoutePhones exchange: the client driver runRoutePhones talks to the  *)
(* handler of session 1 over a stream that buffers at most upCap persons   *)
(* towards the server and downCap phones towards the client.  The          *)
(* transport does not fail and the deadline of the context does not pass.  *)

\* the handler of the exchange
Handler == 1

\* the persons of the loop over persons: a session takes MaxRecv messages
Sending ==
    SubSeq(persons, 1, IF MaxRecv < Len(persons) THEN MaxRecv
                                                  ELSE Len(persons))

InitExchange ==
    /\ newServer
    /\ now = 0
    /\ NoSession
    /\ cpc = "idle" /\ gpc = "idle"
    /\ psent = 0 /\ waitc = 0 /\ got = <<>>
    /\ up = <<>> /\ upClosed = FALSE /\ down = <<>>
    /\ upCap \in 1..MaxBuffer
    /\ downCap \in 1..MaxBuffer

\* the position of the calling goroutine after i persons are sent
AfterPersons(i) == IF i < Len(Sending) THEN "send" ELSE "close"

\* stream, err := client.RoutePhones(ctx); waitc := make(chan struct{});
\* go func() {...}(): the handler starts and so does the receiving goroutine
ClientCall ==
    /\ cpc = "idle"
    /\ RoutePhonesStart(Handler)
    /\ cpc' = AfterPersons(0)
    /\ gpc' = "recv"
    /\ UNCHANGED << psent, waitc, got, up, upClosed, down, upCap, downCap >>

\* stream.Send(&persons[p]): blocks while the stream is full
ClientSend ==
    /\ cpc = "send"
    /\ Len(up) < upCap
    /\ up' = Append(up, Sending[psent + 1])
    /\ psent' = psent + 1
    /\ cpc' = AfterPersons(psent + 1)
    /\ UNCHANGED << gpc, waitc, got, upClosed, down, upCap, downCap >>
    /\ UNCHANGED server

\* a driver that goes on to wait without closing its send side
SkipCloseSend ==
    /\ cpc = "close"
    /\ cpc' = "wait"
    /\ UNCHANGED << psent, gpc, waitc, got, up, upClosed, down, upCap,
                    downCap >>
    /\ UNCHANGED server

\* _ = stream.CloseSend()
ClientCloseSend ==
    /\ cpc = "close"
    /\ upClosed' = TRUE
    /\ cpc' = "wait"
    /\ UNCHANGED << psent, gpc, waitc, got, up, down, upCap, downCap >>
    /\ UNCHANGED server

\* <-waitc: blocks until waitc is closed, then runRoutePhones returns
ClientWait ==
    /\ cpc = "wait"
    /\ waitc > 0
    /\ cpc' = "returned"
    /\ UNCHANGED << psent, gpc, waitc, got, up, upClosed, down, upCap,
                    downCap >>
    /\ UNCHANGED server

\* phone, err := stream.Recv() of the goroutine, err == nil
ClientRecv ==
    /\ gpc = "recv"
    /\ down # <<>>
    /\ got' = Append(got, Head(down))
    /\ down' = Tail(down)
    /\ UNCHANGED << cpc, psent, gpc, waitc, up, upClosed, upCap, downCap >>
    /\ UNCHANGED server

\* stream.Recv() returns io.EOF once the handler has returned nil and every
\* phone is delivered: close(waitc); return
ClientRecvEOF ==
    /\ gpc = "recv"
    /\ down = <<>>
    /\ pc[Handler] = "done"
    /\ waitc' = waitc + 1
    /\ gpc' = "returned"
    /\ UNCHANGED << cpc, psent, got, up, upClosed, down, upCap, downCap >>
    /\ UNCHANGED server

\* what stream.Recv() of the handler returns: the oldest person sent, or
\* io.EOF when the client closed its side and all persons are delivered;
\* nothing while the handler has to wait
FromClient ==
    IF up # <<>>
    THEN { [person |-> << Head(up) >>, err |-> NoError] }
    ELSE IF upClosed THEN { [person |-> <<>>, err |-> EOF] } ELSE {}

HandlerRecv ==
    /\ \E out \in FromClient : RoutePhonesRecv(Handler, out)
    /\ up' = IF up # <<>> THEN Tail(up) ELSE up
    /\ UNCHANGED << cpc, psent, gpc, waitc, got, upClosed, down, upCap,
                    downCap >>

HandlerLock == RoutePhonesLock(Handler) /\ UNCHANGED exchange

HandlerCopy == RoutePhonesCopy(Handler) /\ UNCHANGED exchange

\* stream.Send(phone) of the handler: blocks while the stream is full
HandlerSend ==
    /\ Len(down) < downCap
    /\ RoutePhonesSend(Handler)
    /\ down' = Append(down, rn[Handler][idx[Handler] + 1])
    /\ UNCHANGED << cpc, psent, gpc, waitc, got, up, upClosed, upCap,
                    downCap >>

\* the goroutines of the exchange
ClientMain == ClientCall \/ ClientSend \/ ClientCloseSend \/ ClientWait
ClientReceiver == ClientRecv \/ ClientRecvEOF
HandlerStep == HandlerRecv \/ HandlerLock \/ HandlerCopy \/ HandlerSend

NextExchange ==
    \/ ClientCall
    \/ ClientSend
    \/ ClientCloseSend
    \/ ClientWait
    \/ ClientRecv
    \/ ClientRecvEOF
    \/ HandlerRecv
    \/ HandlerLock
    \/ HandlerCopy
    \/ HandlerSend

\* the Go scheduler runs every goroutine that is not blocked
SpecExchange ==
    /\ InitExchange
    /\ [][NextExchange]_vars
    /\ WF_vars(ClientMain)
    /\ WF_vars(ClientReceiver)
    /\ WF_vars(HandlerStep)

-----------------------------------------------------------------------------
(* GetPhone as a function of the registry: the server is loaded with any   *)
(* registry of Registries and answers GetPhone calls.                      *)

InitLookup ==
    /\ savedPersons \in Registries
    /\ addressbook = savedPersons
    /\ mu = 0
    /\ now = 0
    /\ NoSession
    /\ NoExchange

NextLookup ==
    \E s \in Sessions, id \in LookupIds :
        GetPhone(s, id) /\ UNCHANGED exchange

SpecLookup == InitLookup /\ [][NextLookup]_vars

-----------------------------------------------------------------------------
(* Properties *)

\* p and q are the same person up to the timestamp the server sets
SameRecord(p, q) == [p EXCEPT !.lastUpdated = <<>>] = [q EXCEPT !.lastUpdated = <<>>]

IsPrefix(a, b) == Len(a) <= Len(b) /\ a = SubSeq(b, 1, Len(a))

\* the last n elements of a sequence of at least n elements
Trailing(a, n) == SubSeq(a, Len(a) - n + 1, Len(a))

\* a and b are the same persons, in order, up to the timestamps
SameRecords(a, b) ==
    /\ Len(a) = Len(b)
    /\ \A i \in 1..Len(a) : SameRecord(a[i], b[i])

RecordSessions == { s \in Sessions : kind[s] = "RecordPersons" }

\* C1: in a RecordPersons session that has received N persons without a
\* failure (and is the only RecordPersons session), the registry
\* savedPersons is the registry at session start followed by the N received
\* persons in arrival order.
C1_ReceivedAreAppended ==
    \A s \in Sessions :
        (RecordSessions = {s} /\ pc[s] # "failed")
            => /\ Len(savedPersons) = Len(startPersons[s]) + Len(recvd[s])
               /\ IsPrefix(startPersons[s], savedPersons)
               /\ SameRecords(Trailing(savedPersons, Len(recvd[s])), recvd[s])

\* C2: the snapshot a RecordPersons session returns after N persons and
\* end-of-input has at least N entries and ends with the N received persons
\* in arrival order, or with them followed by the one synthetic record.
C2_SnapshotEndsWithReceived ==
    \A s \in Sessions :
        (kind[s] = "RecordPersons" /\ pc[s] = "done")
            => LET snap == sent[s][1].people
                   n == Len(recvd[s])
               IN  /\ Len(snap) >= n
                   /\ \/ SameRecords(Trailing(snap, n), recvd[s])
                      \/ /\ Len(snap) >= n + 1
                         /\ snap[Len(snap)] = syntheticPerson
                         /\ SameRecords(
                                SubSeq(snap, Len(snap) - n, Len(snap) - 1),
                                recvd[s])

\* C3: a RecordPersons session that receives no person and then
\* end-of-input returns the registry as it was at session start followed by
\* exactly one synthetic record, whatever sessions completed before.
C3_EmptySessionSnapshot ==
    \A s \in Sessions :
        (kind[s] = "RecordPersons" /\ pc[s] = "done" /\ recvd[s] = <<>>)
            => sent[s][1].people = Append(startPersons[s], syntheticPerson)

\* session s is between the read and the write of its update of the
\* address book
InBookUpdate(s) == kind[s] = "RecordPersons" /\ pc[s] = "store"

\* C4: a session that is updating the address book holds mu, and no two
\* sessions are inside such an update at the same time.
C4_MuProtectsAddressbook ==
    /\ \A s \in Sessions : InBookUpdate(s) => mu = s
    /\ \A s, t \in Sessions :
          (InBookUpdate(s) /\ InBookUpdate(t)) => s = t

\* C5: savedPersons always equals the seed set loaded by loadFeatures.
C5_SavedPersonsReadOnly == savedPersons = exampleData

\* a RecordPersons session has received persons and completed next to a
\* session of another RPC
C5_Witness ==
    \E s, t \in Sessions :
        /\ kind[s] = "RecordPersons" /\ pc[s] = "done" /\ Len(recvd[s]) >= 2
        /\ kind[t] \in {"RoutePhones", "ListPersons", "GetPhone"}
        /\ pc[t] \in {"done", "failed"}

\* i is the first index of the registry of session s whose id is the
\* requested one
FirstMatch(s, i) ==
    /\ i \in 1..Len(startPersons[s])
    /\ startPersons[s][i].id = reqId[s]
    /\ \A j \in 1..(i - 1) : startPersons[s][j].id # reqId[s]

\* C6 as stated: for every id that some record carries, GetPhone returns
\* without error the first phone of the first record with that id.
C6_FirstPhoneOfAnyMatch ==
    \A s \in Sessions : \A i \in 1..Len(startPersons[s]) :
        (kind[s] = "GetPhone" /\ FirstMatch(s, i))
            => /\ pc[s] = "done"
               /\ err[s] = NoError
               /\ Len(startPersons[s][i].phones) > 0
               /\ sent[s] = << startPersons[s][i].phones[1] >>

\* C6 amended: for every id whose first matching record has at least one
\* phone, GetPhone returns without error the first phone of that record,
\* also when several records share the id.
C6_FirstPhoneOfFirstMatch ==
    \A s \in Sessions : \A i \in 1..Len(startPersons[s]) :
        (/\ kind[s] = "GetPhone"
         /\ FirstMatch(s, i)
         /\ Len(startPersons[s][i].phones) > 0)
            => /\ pc[s] = "done"
               /\ err[s] = NoError
               /\ sent[s] = << startPersons[s][i].phones[1] >>

\* GetPhone has answered for an id that two records with different first
\* phones share
C6_Witness ==
    \E s \in Sessions :
        /\ kind[s] = "GetPhone" /\ pc[s] = "done"
        /\ Len(startPersons[s]) >= 2
        /\ startPersons[s][1].id = reqId[s]
        /\ startPersons[s][2].id = reqId[s]
        /\ Len(startPersons[s][1].phones) > 0
        /\ Len(startPersons[s][2].phones) > 0
        /\ startPersons[s][1].phones[1] # startPersons[s][2].phones[1]

\* no record of the registry of session s has the requested id
Absent(s) ==
    \A i \in 1..Len(startPersons[s]) : startPersons[s][i].id # reqId[s]

\* session s returned the error NotFound together with an empty phone
ReturnedNotFound(s) ==
    /\ pc[s] = "failed"
    /\ err[s] = NotFoundError
    /\ sent[s] = << EmptyPhoneNumber >>

\* C7 as stated: for an id that no record carries GetPhone returns NotFound
\* with an empty phone, and GetPhone never returns an empty phone without
\* an error.
C7_NeverEmptyWithoutError ==
    \A s \in Sessions :
        kind[s] = "GetPhone"
            => /\ Absent(s) => ReturnedNotFound(s)
               /\ (pc[s] = "done" /\ err[s] = NoError)
                     => sent[s] # << EmptyPhoneNumber >>

\* C7 amended: for an id that no record carries GetPhone returns NotFound
\* with an empty phone, and GetPhone returns an empty phone without an error
\* only when that empty phone is stored as the first phone of the first
\* record with the id.
C7_NotFoundForAbsentId ==
    \A s \in Sessions :
        kind[s] = "GetPhone"
            => /\ Absent(s) => ReturnedNotFound(s)
               /\ (/\ pc[s] = "done"
                   /\ err[s] = NoError
                   /\ sent[s] = << EmptyPhoneNumber >>)
                     => \E i \in 1..Len(startPersons[s]) :
                           /\ FirstMatch(s, i)
                           /\ Len(startPersons[s][i].phones) > 0
                           /\ startPersons[s][i].phones[1] = EmptyPhoneNumber

\* GetPhone has answered for an id absent from a registry that is not empty
C7_Witness ==
    \E s \in Sessions :
        /\ kind[s] = "GetPhone"
        /\ Len(startPersons[s]) >= 1
        /\ Absent(s)
        /\ ReturnedNotFound(s)

\* C8: when the first record with the requested id has no phone, GetPhone
\* returns NotFound with an empty phone and the server keeps running.
C8_NotFoundForEmptyPhoneList ==
    \A s \in Sessions : \A i \in 1..Len(startPersons[s]) :
        (/\ kind[s] = "GetPhone"
         /\ FirstMatch(s, i)
         /\ Len(startPersons[s][i].phones) = 0)
            => ReturnedNotFound(s)

RECURSIVE AllPhones(_)
AllPhones(ps) ==
    IF ps = <<>> THEN <<>> ELSE Head(ps).phones \o AllPhones(Tail(ps))

Front(a) == SubSeq(a, 1, Len(a) - 1)

\* C10: the responses of a RoutePhones session are the phone lists of its
\* inbound persons in arrival order: whenever the session is about to read
\* (or has returned on end-of-input) it has emitted every phone of every
\* person received, and while it serves a person it has emitted all phones
\* of the earlier persons and a prefix of the phones of this one.
C10_RoutePhonesInOrder ==
    \A s \in Sessions :
        kind[s] = "RoutePhones"
            => /\ IsPrefix(sent[s], AllPhones(recvd[s]))
               /\ pc[s] \in {"recv", "done"} => sent[s] = AllPhones(recvd[s])
               /\ recvd[s] # <<>> => IsPrefix(AllPhones(Front(recvd[s])), sent[s])
               /\ pc[s] = "send"
                     => sent[s] = AllPhones(Front(recvd[s]))
                                    \o SubSeq(rn[s], 1, idx[s])

\* a RoutePhones session has served two persons with phones and returned
C10_Witness ==
    \E s \in Sessions :
        /\ kind[s] = "RoutePhones" /\ pc[s] = "done"
        /\ Len(recvd[s]) >= 2
        /\ Len(recvd[s][1].phones) >= 2
        /\ Len(recvd[s][2].phones) >= 1
        /\ recvd[s][1] # recvd[s][2]
        /\ Len(sent[s]) >= 3

-----------------------------------------------------------------------------
Started(s) == kind[s] # "idle"

Terminated(s) == pc[s] \in {"done", "failed"}

Active(s) == Started(s) /\ ~Terminated(s) /\ pc[s] # "panic"

\* C11: every response of a RoutePhones session is a phone of a person that
\* the same session received, whatever the other sessions do.
C11_OwnPhonesOnly ==
    \A s \in Sessions :
        kind[s] = "RoutePhones"
            => \A i \in 1..Len(sent[s]) :
                  \E j \in 1..Len(recvd[s]) :
                     \E k \in 1..Len(recvd[s][j].phones) :
                        sent[s][i] = recvd[s][j].phones[k]

\* two RoutePhones sessions are both in the middle of sending the phones of
\* different persons
C11_Witness ==
    \E s, t \in Sessions :
        /\ s # t
        /\ kind[s] = "RoutePhones" /\ pc[s] = "send" /\ Len(sent[s]) > 0
        /\ kind[t] = "RoutePhones" /\ pc[t] = "send" /\ Len(sent[t]) > 0
        /\ sent[s][1] # sent[t][1]

\* session s waits for session t, which is inside the copy-out critical
\* section and can leave it
WaitsForCopy(s) ==
    /\ pc[s] = "lock"
    /\ mu # 0 /\ mu # s
    /\ kind[mu] = "RoutePhones" /\ pc[mu] = "copy"
    /\ ENABLED ServerStep(mu)

\* C12: a running session can always take a step unless it waits for a
\* session that is inside the copy-out critical section, and every session
\* whose receives eventually return (a message, end-of-input or a failure)
\* terminates, whether or not the peers of the other sessions ever act.
C12_NoDeadlock ==
    /\ [](\A s \in Sessions :
            Active(s) => \/ ENABLED (RecvStep(s) \/ ServerStep(s))
                         \/ WaitsForCopy(s))
    /\ \A s \in Sessions :
          WF_vars(RecvStep(s)) => (Active(s) ~> Terminated(s))

\* a session waits at the lock while another one is copying
C12_Witness ==
    \E s, t \in Sessions :
        /\ kind[s] = "RoutePhones" /\ pc[s] = "lock"
        /\ kind[t] = "RoutePhones" /\ pc[t] = "copy" /\ mu = t

\* C13: mu is held only by a RoutePhones session between its lock and its
\* unlock: a session that is in a receive or a send does not hold it.
C13_MuOnlyInCopy ==
    /\ mu \in {0} \cup Sessions
    /\ \A s \in Sessions :
          mu = s => kind[s] = "RoutePhones" /\ pc[s] = "copy"

\* a session holds mu while another one that took it before is sending
C13_Witness ==
    \E s, t \in Sessions :
        /\ mu = s /\ pc[s] = "copy"
        /\ kind[t] = "RoutePhones" /\ pc[t] = "send" /\ rn[t] # <<>>

\* C14: a session whose handler has returned, normally or with a failure,
\* does not hold mu.
C14_ReturnedReleased ==
    \A s \in Sessions : Terminated(s) => mu # s

\* a RoutePhones session that took mu has failed in a send, and one has
\* failed in a receive after it served a person
C14_Witness ==
    \E s, t \in Sessions :
        /\ kind[s] = "RoutePhones" /\ pc[s] = "failed"
        /\ sendErr[s] = TransportError
        /\ kind[t] = "RoutePhones" /\ pc[t] = "failed"
        /\ recvErr[t] = TransportError /\ Len(sent[t]) > 0

-----------------------------------------------------------------------------
\* the number of synthetic records in the address book book
SyntheticCount(book) ==
    Cardinality({ i \in 1..Len(book) : book[i] = syntheticPerson })

\* the sessions other than s that have stored their synthetic record
StoredBesides(s) ==
    { t \in Sessions \ {s} :
        /\ kind[t] = "RecordPersons"
        /\ recvErr[t] = EOF
        /\ pc[t] \in {"send", "done", "failed"} }

\* the last receive of session s failed with something else than
\* end-of-input
RecvFailed(s) == recvErr[s] \notin {NoError, EOF}

\* C15: a RecordPersons session whose receive failed with anything but
\* end-of-input has returned that failure, has sent no snapshot and has added
\* no synthetic record: the address book holds at most one synthetic record
\* for each other session that stored one.
C15_RecvFailureNoSnapshot ==
    \A s \in Sessions :
        (kind[s] = "RecordPersons" /\ RecvFailed(s))
            => /\ pc[s] = "failed"
               /\ err[s] = recvErr[s]
               /\ sent[s] = <<>>
               /\ old[s] = <<>>
               /\ SyntheticCount(addressbook) <= Cardinality(StoredBesides(s))

\* a RecordPersons session failed in a receive after it received a person,
\* next to one that completed
C15_Witness ==
    \E s, t \in Sessions :
        /\ kind[s] = "RecordPersons" /\ RecvFailed(s) /\ Len(recvd[s]) >= 1
        /\ kind[t] = "RecordPersons" /\ pc[t] = "done"
        /\ SyntheticCount(addressbook) = 1

ListOrRoute(s) == kind[s] \in {"ListPersons", "RoutePhones"}

\* C16: in ListPersons and RoutePhones a failed send or a failed receive
\* (other than end-of-input) ends the session with exactly that failure, and
\* a session that has failed sends and receives nothing more.
C16_FirstFailureEnds ==
    /\ [](\A s \in Sessions :
            ListOrRoute(s)
              => /\ sendErr[s] # NoError
                     => pc[s] = "failed" /\ err[s] = sendErr[s]
                 /\ RecvFailed(s)
                     => pc[s] = "failed" /\ err[s] = recvErr[s])
    /\ [][\A s \in Sessions :
            (ListOrRoute(s) /\ pc[s] = "failed")
              => /\ pc'[s] = "failed"
                 /\ sent'[s] = sent[s]
                 /\ recvd'[s] = recvd[s]
                 /\ err'[s] = err[s]
                 /\ recvErr'[s] = recvErr[s]
                 /\ sendErr'[s] = sendErr[s]]_vars

\* a ListPersons session failed in the middle of the registry and a
\* RoutePhones session failed in the middle of a phone list, while the other
\* went on
C16_Witness ==
    \E s, t \in Sessions :
        /\ kind[s] = "ListPersons" /\ pc[s] = "failed"
        /\ Len(sent[s]) >= 1 /\ Len(sent[s]) < Len(ranged[s])
        /\ kind[t] = "RoutePhones" /\ pc[t] = "failed"
        /\ sendErr[t] = TransportError
        /\ Len(sent[t]) >= 1 /\ Len(sent[t]) < Len(AllPhones(recvd[t]))

\* the number of sends session s attempted on its stream: the ones that
\* succeeded and the one that failed
SendAttempts(s) == Len(sent[s]) + (IF sendErr[s] = NoError THEN 0 ELSE 1)

\* C17: a RecordPersons session sends nothing while it receives, makes
\* exactly one send, of the snapshot, once end-of-input arrived, and after
\* it has returned it neither receives nor sends.
C17_RecordSessionMachine ==
    /\ [](\A s \in Sessions :
            kind[s] = "RecordPersons"
              => /\ pc[s] \in {"recv", "load", "store", "send", "done", "failed"}
                 /\ pc[s] = "recv" => recvErr[s] = NoError
                 /\ pc[s] \in {"recv", "load", "store", "send"}
                       => SendAttempts(s) = 0
                 /\ pc[s] \in {"load", "store", "send", "done"}
                       => recvErr[s] = EOF
                 /\ SendAttempts(s) > 0
                       => recvErr[s] = EOF /\ Terminated(s)
                 /\ (Terminated(s) /\ recvErr[s] = EOF)
                       => SendAttempts(s) = 1
                 /\ pc[s] = "done"
                       => /\ Len(sent[s]) = 1
                          /\ IsPrefix(exampleData, sent[s][1].people)
                 /\ RecvFailed(s) => SendAttempts(s) = 0)
    /\ [][\A s \in Sessions :
            (kind[s] = "RecordPersons" /\ (Terminated(s) \/ recvErr[s] = EOF))
              => /\ recvd'[s] = recvd[s]
                 /\ recvErr'[s] = recvErr[s]
                 /\ Terminated(s)
                       => /\ pc'[s] = pc[s]
                          /\ sent'[s] = sent[s]
                          /\ sendErr'[s] = sendErr[s]]_vars

\* a RecordPersons session received persons, then end-of-input, and
\* returned with its one snapshot sent, while another one is still receiving
C17_Witness ==
    \E s, t \in Sessions :
        /\ kind[s] = "RecordPersons" /\ pc[s] = "done"
        /\ Len(recvd[s]) >= 1 /\ Len(sent[s]) = 1
        /\ kind[t] = "RecordPersons" /\ pc[t] = "recv" /\ Len(recvd[t]) >= 1

-----------------------------------------------------------------------------
\* C18: the synthetic record never enters the registry: ListPersons never
\* emits it, and GetPhone for its id answers NotFound, as it does before any
\* RecordPersons session.
C18_SyntheticNotInRegistry ==
    \A s \in Sessions :
        /\ kind[s] = "ListPersons"
              => \A i \in 1..Len(sent[s]) : sent[s][i] # syntheticPerson
        /\ (kind[s] = "GetPhone" /\ reqId[s] = syntheticPerson.id)
              => ReturnedNotFound(s)

\* a RecordPersons session has completed and then GetPhone was asked for
\* the id of the synthetic record, or ListPersons listed the registry
C18_Witness ==
    \E s, t \in Sessions :
        /\ kind[s] = "RecordPersons" /\ pc[s] = "done"
        /\ SyntheticCount(startBook[t]) >= 1
        /\ \/ kind[t] = "GetPhone" /\ reqId[t] = syntheticPerson.id
           \/ kind[t] = "ListPersons" /\ pc[t] = "done"

\* C19: the registry and the address book only grow: in every step the
\* contents before the step are a prefix of the contents after it.
C19_AppendOnly ==
    [][/\ IsPrefix(savedPersons, savedPersons')
       /\ IsPrefix(addressbook, addressbook')]_vars

\* the step is one of a GetPhone, ListPersons or RoutePhones session
ReaderStep ==
    \E s \in Sessions :
        /\ kind'[s] \in {"GetPhone", "ListPersons", "RoutePhones"}
        /\ << kind[s], pc[s], sent[s], recvd[s], recvErr[s], sendErr[s] >>
             # << kind'[s], pc'[s], sent'[s], recvd'[s], recvErr'[s],
                  sendErr'[s] >>

-----------------------------------------------------------------------------
\* the elements of a sequence
Range(a) == { a[i] : i \in DOMAIN a }

\* in this step the RecordPersons session s receives a person
Ingests(s) ==
    /\ kind[s] = "RecordPersons"
    /\ Len(recvd'[s]) = Len(recvd[s]) + 1

\* C21: every person a RecordPersons session receives is stored with
\* lastUpdated set to the server clock read at that step (the clock never
\* goes back, so this is no earlier than the start of the session),
\* whatever timestamp the client supplied; and when the session has
\* returned its snapshot, every person it received is in the registry or
\* in the snapshot with a timestamp the server clock has shown.
C21_StampedAtIngestion ==
    /\ [][\A s \in DOMAIN kind :
            Ingests(s)
              => /\ now' >= now
                 /\ Stamp(recvd'[s][Len(recvd'[s])], now)
                       \in Range(savedPersons') \cup Range(addressbook')]_vars
    /\ [](\A s \in DOMAIN kind :
            (kind[s] = "RecordPersons" /\ pc[s] = "done")
              => \A i \in 1..Len(recvd[s]) :
                    \E ts \in 0..now :
                       Stamp(recvd[s][i], ts)
                          \in Range(savedPersons)
                                 \cup Range(sent[s][1].people))

-----------------------------------------------------------------------------
\* the peer of the RoutePhones session s has signalled end-of-input
InputEnded(s) == kind[s] = "RoutePhones" /\ recvErr[s] = EOF

\* C22: a RoutePhones session whose peer signalled end-of-input has
\* returned without an error and has emitted as many responses as the
\* persons it received have phones (none when end-of-input came first);
\* the step that receives end-of-input sends nothing, and nothing is sent
\* after it.
C22_EndOfInputEndsCleanly ==
    /\ [](\A s \in DOMAIN kind :
            InputEnded(s)
              => /\ pc[s] = "done"
                 /\ err[s] = NoError
                 /\ Len(sent[s]) = Len(AllPhones(recvd[s]))
                 /\ recvd[s] = <<>> => sent[s] = <<>>)
    /\ [][\A s \in DOMAIN kind :
            InputEnded(s)' => sent'[s] = sent[s]]_vars

\* one RoutePhones session got end-of-input first and another one after a
\* person with phones, and both have returned
C22_Witness ==
    \E s, t \in DOMAIN kind :
        /\ InputEnded(s) /\ pc[s] = "done"
        /\ recvd[s] = <<>> /\ sent[s] = <<>>
        /\ InputEnded(t) /\ pc[t] = "done"
        /\ Len(recvd[t]) >= 1 /\ Len(sent[t]) >= 2

-----------------------------------------------------------------------------
\* k synthetic records
Synthetics(k) == [i \in 1..k |-> syntheticPerson]

\* a session is between its end-of-input and the end of its injection
Injecting == \E s \in DOMAIN kind : pc[s] \in {"load", "store"}

\* the place of session s among the sessions that reached end-of-input
EofRank(s) == CHOOSE i \in 1..Len(eofOrder) : eofOrder[i] = s

\* C23: whenever k RecordPersons sessions have reached end-of-input and
\* none of them is in the middle of its injection, the address book is the
\* seed followed by exactly k synthetic records; and the snapshot returned
\* to a session is the seed followed by its own synthetic record and those
\* of the sessions that reached end-of-input before it, and by none of a
\* session that reached end-of-input after it.
C23_OneSyntheticPerSession ==
    /\ ~Injecting
          => addressbook = exampleData \o Synthetics(Len(eofOrder))
    /\ \A s \in DOMAIN kind :
          (kind[s] = "RecordPersons" /\ pc[s] = "done")
            => \E n \in 1..EofRank(s) :
                  sent[s][1].people = exampleData \o Synthetics(n)

-----------------------------------------------------------------------------
\* runRoutePhones has returned
ClientReturned == cpc = "returned"

\* C24: a RoutePhones exchange with stream buffers of any capacity from 1
\* to MaxBuffer completes: runRoutePhones returns, and when it does it has
\* sent all its persons, closed its send side, received every phone of
\* every person in order and then end-of-stream, and waitc was closed
\* once; waitc is never closed twice, and until runRoutePhones returns
\* some goroutine of the client or the handler can take a step.
C24_ExchangeCompletes ==
    /\ [](ClientReturned
            => /\ psent = Len(Sending) /\ up = <<>> /\ upClosed
               /\ recvd[Handler] = Sending
               /\ pc[Handler] = "done" /\ err[Handler] = NoError
               /\ got = AllPhones(Sending) /\ down = <<>>
               /\ gpc = "returned" /\ waitc = 1)
    /\ [](waitc <= 1)
    /\ [](~ClientReturned => ENABLED NextExchange)
    /\ <>ClientReturned

\* runRoutePhones has returned from an exchange over buffers of one message
\* in each direction, in which the handler served two persons with phones
C24_Witness ==
    /\ ClientReturned
    /\ upCap = 1 /\ downCap = 1
    /\ Len(recvd[Handler]) >= 2
    /\ Len(got) >= 2

====
